---------------------------- MODULE Spec2Model ----------------------------
(***************************************************************************)
(* Model of src/src/lib.rs of raqote-utils: the SVG path-data parser       *)
(* (split_path, create_path_from_string) and the circle builder            *)
(* (build_circle).                                                         *)
(*                                                                         *)
(* A string is a sequence of one-character strings.  Numbers are integers: *)
(* the model's alphabet has no decimal point, so every f32 the parser      *)
(* reads is a small whole number and f32 arithmetic on it is exact.        *)
(* build_circle multiplies by 0.5522847498; its coordinates are kept in    *)
(* units of 1/KDen with the constant truncated to KNum/KDen, so that the   *)
(* arithmetic on them is exact integer arithmetic too.                     *)
(*                                                                         *)
(* One behaviour is one call of create_path_from_string or build_circle.   *)
(* A panic (unwrap on None, expect on Err, index out of bounds) ends the   *)
(* call in pc = "panic": no path is returned.                              *)
(***************************************************************************)
EXTENDS Integers, Sequences, FiniteSets

VARIABLES
    fn,            \* the function called
    svg_raw_path,  \* create_path_from_string's argument
    radius, cx, cy,\* build_circle's arguments (x, y name the centre)
    pc,            \* position in the called function
    tokens,        \* split_path's result, the items of elements_values
    pos,           \* elements_values: index of the item next() returns
    elements,      \* the grouped (command, args) pairs
    idx,           \* the for loop over elements: index of the next pair
    path,          \* the operations issued to the PathBuilder, in order
    last_x, last_y,\* the cursor
    calls          \* the calls that have ended: arguments and outcome

vars == <<fn, svg_raw_path, radius, cx, cy, pc, tokens, pos, elements, idx,
          path, last_x, last_y, calls>>

---------------------------------------------------------------------------
(* Bounds of the model *)

MaxWords == 2
MaxChars == 4
MaxRadius == 3
MaxCalls == 2

---------------------------------------------------------------------------
(* Characters *)

split_chars == {" ", ","}

Letters ==
    {"m", "M", "l", "L", "v", "V", "h", "H", "c", "C", "s", "S", "Z", "z",
     "A", "a", "t", "T"}

Digits == {"0", "1", "2", "3", "4", "5", "6", "7", "8", "9"}

is_alphabetic(character) == character \in Letters

is_digit(character) == character \in Digits

DigitVal(character) ==
    CASE character = "0" -> 0 [] character = "1" -> 1 [] character = "2" -> 2
      [] character = "3" -> 3 [] character = "4" -> 4 [] character = "5" -> 5
      [] character = "6" -> 6 [] character = "7" -> 7 [] character = "8" -> 8
      [] character = "9" -> 9

---------------------------------------------------------------------------
(* split_path *)

\* split_loop in which a letter joins the buffer and flushes nothing.
RECURSIVE split_loop_joined(_, _, _, _)
split_loop_joined(target, i, buffer, output) ==
    IF i > Len(target)
    THEN [buffer |-> buffer, output |-> output]
    ELSE LET character == target[i] IN
         IF character \in split_chars
         THEN split_loop_joined(target, i + 1, <<>>, Append(output, buffer))
         ELSE split_loop_joined(target, i + 1, Append(buffer, character),
                                output)

RECURSIVE split_loop(_, _, _, _)
split_loop(target, i, buffer, output) ==
    IF i > Len(target)
    THEN [buffer |-> buffer, output |-> output]
    ELSE LET character == target[i] IN
         IF character \in split_chars
         THEN split_loop(target, i + 1, <<>>, Append(output, buffer))
         ELSE IF is_alphabetic(character)
         THEN split_loop(target, i + 1, <<character>>, Append(output, buffer))
         ELSE split_loop(target, i + 1, Append(buffer, character), output)

\* retain_nonempty without the retain: empty strings stay in the output.
retain_all(output) == output

retain_nonempty(output) == SelectSeq(output, LAMBDA x : x # <<>>)

split_path(target) ==
    LET r == split_loop(target, 1, <<>>, <<>>)
        flushed == IF r.buffer # <<>> THEN Append(r.output, r.buffer)
                   ELSE r.output
    IN  retain_nonempty(flushed)

---------------------------------------------------------------------------
(* str::parse::<f32> on the model's alphabet: an optional sign and one or  *)
(* more digits; anything else is Err.                                      *)

RECURSIVE digits_value(_, _)
digits_value(s, acc) ==
    IF s = <<>> THEN acc
    ELSE digits_value(Tail(s), 10 * acc + DigitVal(Head(s)))

all_digits(s) == s # <<>> /\ \A i \in 1..Len(s) : is_digit(s[i])

parse_f32(s) ==
    IF s # <<>> /\ Head(s) = "-" /\ all_digits(Tail(s))
    THEN [ok |-> TRUE, val |-> 0 - digits_value(Tail(s), 0)]
    ELSE IF s # <<>> /\ Head(s) = "+" /\ all_digits(Tail(s))
    THEN [ok |-> TRUE, val |-> digits_value(Tail(s), 0)]
    ELSE IF all_digits(s)
    THEN [ok |-> TRUE, val |-> digits_value(s, 0)]
    ELSE [ok |-> FALSE, val |-> 0]

---------------------------------------------------------------------------
(* The grouping pass of create_path_from_string *)

\* take_args that also takes a token with a leading '-' for an argument.
RECURSIVE take_args_signed(_, _, _)
take_args_signed(toks, p, args) ==
    IF p > Len(toks)
    THEN [panic |-> TRUE, args |-> args, pos |-> p]
    ELSE IF toks[p] = <<>>
    THEN [panic |-> TRUE, args |-> args, pos |-> p]
    ELSE IF is_digit(toks[p][1]) \/ toks[p][1] = "-"
    THEN LET v == parse_f32(toks[p]) IN
         IF v.ok THEN take_args_signed(toks, p + 1, Append(args, v.val))
         ELSE [panic |-> TRUE, args |-> args, pos |-> p]
    ELSE [panic |-> FALSE, args |-> args, pos |-> p]

\* The inner while loop: peek().unwrap() panics at the end of the tokens,
\* a token whose first character is a digit is consumed and parsed.
RECURSIVE take_args(_, _, _)
take_args(toks, p, args) ==
    IF p > Len(toks)
    THEN [panic |-> TRUE, args |-> args, pos |-> p]
    ELSE IF toks[p] = <<>>
    THEN [panic |-> TRUE, args |-> args, pos |-> p]
    ELSE IF is_digit(toks[p][1])
    THEN LET v == parse_f32(toks[p]) IN
         IF v.ok THEN take_args(toks, p + 1, Append(args, v.val))
         ELSE [panic |-> TRUE, args |-> args, pos |-> p]
    ELSE [panic |-> FALSE, args |-> args, pos |-> p]

\* One iteration of the outer loop on a token that is not a Z.
group_element(toks, p) ==
    LET element == toks[p]
        first_arg == Tail(element)
        first == parse_f32(first_arg)
    IN  IF first_arg # <<>> /\ ~first.ok
        THEN [panic |-> TRUE, args |-> <<>>, pos |-> p]
        ELSE take_args(toks, p + 1,
                       IF first_arg # <<>> THEN <<first.val>> ELSE <<>>)

---------------------------------------------------------------------------
(* PathBuilder operations *)

MoveTo(x, y) == [op |-> "moveTo", args |-> <<x, y>>]
LineTo(x, y) == [op |-> "lineTo", args |-> <<x, y>>]
CubicTo(x1, y1, x2, y2, x, y) ==
    [op |-> "cubicTo", args |-> <<x1, y1, x2, y2, x, y>>]
QuadTo(x1, y1, x, y) == [op |-> "quadTo", args |-> <<x1, y1, x, y>>]
Close == [op |-> "close", args |-> <<>>]

---------------------------------------------------------------------------
(* The inputs of a call.  A path string is one of: up to MaxWords words   *)
(* followed by a terminator; any string of up to MaxChars characters of   *)
(* Alphabet; one of the example strings.                                   *)
W_M == <<"M", "1", " ", "2">>    \* "M1 2"
W_m == <<"m", "3", " ", "1">>    \* "m3 1"
W_l == <<"l", "2", " ", "3">>    \* "l2 3"
W_L == <<"L", "4", " ", "5">>    \* "L4 5"
W_v == <<"v", "2">>    \* "v2"
W_V == <<"V", "7">>    \* "V7"
W_h == <<"h", "3">>    \* "h3"
W_H == <<"H", "6">>    \* "H6"
W_c == <<"c", "1", " ", "2", " ", "3", " ", "4", " ", "5", " ", "6">>    \* "c1 2 3 4 5 6"
W_C == <<"C", "1", " ", "2", " ", "3", " ", "4", " ", "5", " ", "6">>    \* "C1 2 3 4 5 6"
W_s == <<"s", "1", " ", "2", " ", "3", " ", "4">>    \* "s1 2 3 4"
W_S == <<"S", "5", " ", "6", " ", "7", " ", "8">>    \* "S5 6 7 8"
W_Z == <<"Z">>    \* "Z"
W_z == <<"z">>    \* "z"
W_A == <<"A", "1", " ", "2">>    \* "A1 2"
W_more == <<" ", "7">>    \* " 7"
W_neg == <<" ", "-", "5">>    \* " -5"
W_few == <<"M", "1">>    \* "M1"

Words ==
    {W_M, W_m, W_l, W_L, W_v, W_V,
     W_h, W_H, W_c, W_C, W_s, W_S,
     W_Z, W_z, W_A, W_more, W_neg, W_few}

Terminators == {<<>>, <<"Z">>, <<"z">>}

RECURSIVE WordStrings(_)
WordStrings(n) ==
    IF n = 0 THEN {<<>>}
    ELSE LET shorter == WordStrings(n - 1) IN
         shorter \cup {s \o w : s \in shorter, w \in Words}

Alphabet == {"M", "l", "Z", "1", "-", " ", ","}

RECURSIVE CharStrings(_)
CharStrings(n) ==
    IF n = 0 THEN {<<>>}
    ELSE LET shorter == CharStrings(n - 1) IN
         shorter \cup {Append(s, c) : s \in shorter, c \in Alphabet}

Ex_square == <<"M", "0", " ", "0", "L", "1", "0", " ", "0", "L", "1", "0", " ", "1", "0", "L", "0", " ", "1", "0", "Z">>
    \* "M0 0L10 0L10 10L0 10Z"
Ex_arc == <<"A", " ", "5", " ", "5", " ", "0", " ", "0", " ", "1", " ", "1", "0", " ", "1", "0">>
    \* "A 5 5 0 0 1 10 10"
Ex_arc_closed == <<"A", " ", "5", " ", "5", " ", "0", " ", "0", " ", "1", " ", "1", "0", " ", "1", "0", "Z">>
    \* "A 5 5 0 0 1 10 10Z"
Ex_few == <<"M", "1", "0">>
    \* "M10"
Ex_few_closed == <<"M", "1", "0", "Z">>
    \* "M10Z"
Ex_many_closed == <<"M", "1", "0", " ", "1", "0", " ", "2", "0", " ", "2", "0", "Z">>
    \* "M10 10 20 20Z"
Ex_rel == <<"M", "1", "0", " ", "1", "0", "l", "5", " ", "5">>
    \* "M10 10l5 5"
Ex_abs == <<"M", "1", "0", " ", "1", "0", "L", "1", "5", " ", "1", "5">>
    \* "M10 10L15 15"
Ex_spaced == <<"M", " ", "0", " ", "0", " ", "L", " ", "1", "0", " ", "1", "0">>
    \* "M 0 0 L 10 10"
Ex_tight == <<"M", "0", " ", "0", "L", "1", "0", " ", "1", "0">>
    \* "M0 0L10 10"
Ex_rel_closed == <<"M", "1", "0", " ", "1", "0", "l", "5", " ", "5", "Z">>
    \* "M10 10l5 5Z"
Ex_abs_closed == <<"M", "1", "0", " ", "1", "0", "L", "1", "5", " ", "1", "5", "Z">>
    \* "M10 10L15 15Z"
Ex_spaced_closed == <<"M", " ", "0", " ", "0", " ", "L", " ", "1", "0", " ", "1", "0", " ", "Z">>
    \* "M 0 0 L 10 10 Z"
Ex_after_close == <<"M", "1", " ", "2", "L", "4", " ", "5", "Z", "l", "2", " ", "3", "Z">>
    \* "M1 2L4 5Zl2 3Z"
Ex_repeat == <<"L", "1", "0", " ", "0", " ", "1", "0", " ", "1", "0", " ", "0", " ", "1", "0", "Z">>
    \* "L10 0 10 10 0 10Z"
Ex_neg_cont == <<"M", "1", "0", " ", "-", "5", "Z">>
    \* "M10 -5Z"
Ex_neg_first == <<"M", "-", "5", " ", "1", "0", "Z">>
    \* "M-5 10Z"
Ex_tight_closed == <<"M", "0", " ", "0", "L", "1", "0", " ", "1", "0", "Z">>
    \* "M0 0L10 10Z"

Examples ==
    {Ex_square, Ex_arc, Ex_arc_closed, Ex_few,
     Ex_few_closed, Ex_many_closed, Ex_rel, Ex_abs,
     Ex_spaced, Ex_tight, Ex_rel_closed, Ex_abs_closed,
     Ex_spaced_closed, Ex_tight_closed, Ex_after_close,
     Ex_repeat, Ex_neg_cont, Ex_neg_first}

Inputs ==
    {s \o t : s \in WordStrings(MaxWords), t \in Terminators}
        \cup CharStrings(MaxChars) \cup Examples

Radii == (0 - MaxRadius)..MaxRadius \cup {100}

Centres == {0, 5, 256}

---------------------------------------------------------------------------
(* build_circle.  Coordinates are in units of 1/KDen; 0.5522847498 is      *)
(* KNum/KDen to four decimals.  S lifts a whole number to those units.     *)

KNum == 5523
KDen == 10000

S(v) == KDen * v

\* pb.move_to(x + radius, y)
circle_start(x, y, r) == MoveTo(x + r, y)

circle_arc1(x, y, r, offset) ==
    CubicTo(x + r + offset, y,
            x + r * 2, y - r + offset,
            x + r * 2, y - r)

\* circle_arc2 with the sign of the endpoint's 2r slipped.
circle_arc2_down(x, y, r, offset) ==
    CubicTo(x + r * 2, y - r - offset,
            x + r + offset, y + r * 2,
            x + r, y + r * 2)

circle_arc2(x, y, r, offset) ==
    CubicTo(x + r * 2, y - r - offset,
            x + r + offset, y - r * 2,
            x + r, y - r * 2)

circle_arc3(x, y, r, offset) ==
    CubicTo(x + r - offset, y - r * 2,
            x, y - r - offset,
            x, y - r)

\* circle_arc4 ending at the origin (x, y) in place of (x + radius, y).
circle_arc4_open(x, y, r, offset) ==
    CubicTo(x, y - offset, x + r - offset, y, x, y)

circle_arc4(x, y, r, offset) ==
    CubicTo(x, y - offset, x + r - offset, y, x + r, y)

\* circle_origin without the shift of the centre.
circle_origin_unshifted(r, x0, y0) == <<S(x0), S(y0)>>

\* The centre (x0, y0) is shadowed by x = x0 - radius, y = y0 + radius.
circle_origin(r, x0, y0) == <<S(x0) - S(r), S(y0) + S(r)>>

circle_offset(r) == KNum * r

build_circle(r, x0, y0) ==
    LET x == circle_origin(r, x0, y0)[1]
        y == circle_origin(r, x0, y0)[2]
        offset == circle_offset(r)
    IN  << circle_start(x, y, S(r)),
           circle_arc1(x, y, S(r), offset),
           circle_arc2(x, y, S(r), offset),
           circle_arc3(x, y, S(r), offset),
           circle_arc4(x, y, S(r), offset) >>

---------------------------------------------------------------------------
(* The state machine of one call *)

Init ==
    /\ \/ /\ fn = "create_path_from_string"
          /\ svg_raw_path \in Inputs
          /\ radius = 0 /\ cx = 0 /\ cy = 0
       \/ /\ fn = "build_circle"
          /\ svg_raw_path = <<>>
          /\ radius \in Radii /\ cx \in Centres /\ cy \in Centres
    /\ pc = "start"
    /\ tokens = <<>> /\ pos = 1
    /\ elements = <<>> /\ idx = 1
    /\ path = <<>>
    /\ last_x = 0 /\ last_y = 0
    /\ calls = <<>>

args_unchanged == UNCHANGED <<fn, svg_raw_path, radius, cx, cy, calls>>

\* A panic unwinds the call: nothing is returned.
Panic ==
    /\ pc' = "panic"
    /\ UNCHANGED <<tokens, pos, elements, idx, path, last_x, last_y>>
    /\ args_unchanged

\* let mut elements_values = split_path(svg_raw_path).into_iter().peekable();
Tokenize ==
    /\ pc = "start" /\ fn = "create_path_from_string"
    /\ tokens' = split_path(svg_raw_path)
    /\ pos' = 1
    /\ elements' = <<>>
    /\ pc' = "group"
    /\ UNCHANGED <<idx, path, last_x, last_y>>
    /\ args_unchanged

\* The outer loop on a token whose first character is 'Z'.
GroupClose ==
    /\ pc = "group" /\ pos <= Len(tokens)
    /\ tokens[pos] # <<>> /\ tokens[pos][1] = "Z"
    /\ elements' = Append(elements, [command |-> "Z", values |-> <<>>])
    /\ pos' = pos + 1
    /\ UNCHANGED <<pc, tokens, idx, path, last_x, last_y>>
    /\ args_unchanged

\* The outer loop on any other token: its first character is the command,
\* nth(0).unwrap() panics on an empty token.
GroupCommand ==
    /\ pc = "group" /\ pos <= Len(tokens)
    /\ ~(tokens[pos] # <<>> /\ tokens[pos][1] = "Z")
    /\ IF tokens[pos] = <<>>
       THEN Panic
       ELSE LET g == group_element(tokens, pos) IN
            IF g.panic
            THEN Panic
            ELSE /\ elements' = Append(elements,
                        [command |-> tokens[pos][1], values |-> g.args])
                 /\ pos' = g.pos
                 /\ UNCHANGED <<pc, tokens, idx, path, last_x, last_y>>
                 /\ args_unchanged

\* GroupEnd without the initialisation of the cursor: it keeps the value
\* an earlier call left, as a static would.
GroupEnd_stale_cursor ==
    /\ pc = "group" /\ pos > Len(tokens)
    /\ pc' = "interp"
    /\ idx' = 1
    /\ path' = <<>>
    /\ UNCHANGED <<tokens, pos, elements, last_x, last_y>>
    /\ args_unchanged

\* The tokens are exhausted: PathBuilder::new(), last_x = 0.0, last_y = 0.0.
GroupEnd ==
    /\ pc = "group" /\ pos > Len(tokens)
    /\ pc' = "interp"
    /\ idx' = 1
    /\ path' = <<>>
    /\ last_x' = 0 /\ last_y' = 0
    /\ UNCHANGED <<tokens, pos, elements>>
    /\ args_unchanged

\* The for loop is at a pair whose command is c.
At(c) ==
    /\ pc = "interp" /\ idx <= Len(elements)
    /\ elements[idx].command = c

values == elements[idx].values

\* A match arm that reads values[0 .. need-1] (an index out of bounds
\* panics), issues operation o and leaves the cursor at (x, y).
Emit(need, o, x, y) ==
    IF Len(values) < need
    THEN Panic
    ELSE /\ path' = Append(path, o)
         /\ last_x' = x /\ last_y' = y
         /\ idx' = idx + 1
         /\ UNCHANGED <<pc, tokens, pos, elements>>
         /\ args_unchanged

move_rel ==
    /\ At("m")
    /\ Emit(2, MoveTo(last_x + values[1], last_y + values[2]),
            last_x + values[1], last_y + values[2])

move_abs ==
    /\ At("M")
    /\ Emit(2, MoveTo(values[1], values[2]), values[1], values[2])

line_rel ==
    /\ At("l")
    /\ Emit(2, LineTo(last_x + values[1], last_y + values[2]),
            last_x + values[1], last_y + values[2])

line_abs ==
    /\ At("L")
    /\ Emit(2, LineTo(values[1], values[2]), values[1], values[2])

vertical_rel ==
    /\ At("v")
    /\ Emit(1, LineTo(last_x, last_y + values[1]), last_x, last_y + values[1])

vertical_abs ==
    /\ At("V")
    /\ Emit(1, LineTo(last_x, values[1]), last_x, values[1])

horizontal_rel ==
    /\ At("h")
    /\ Emit(1, LineTo(last_x + values[1], last_y), last_x + values[1], last_y)

horizontal_abs ==
    /\ At("H")
    /\ Emit(1, LineTo(values[1], last_y), values[1], last_y)

\* cubic_rel with each point taken as an offset from the point before it.
cubic_rel_chained ==
    /\ At("c")
    /\ Emit(6, CubicTo(last_x + values[1], last_y + values[2],
                       last_x + values[1] + values[3],
                       last_y + values[2] + values[4],
                       last_x + values[5], last_y + values[6]),
            last_x + values[5], last_y + values[6])

cubic_rel ==
    /\ At("c")
    /\ Emit(6, CubicTo(last_x + values[1], last_y + values[2],
                       last_x + values[3], last_y + values[4],
                       last_x + values[5], last_y + values[6]),
            last_x + values[5], last_y + values[6])

cubic_abs ==
    /\ At("C")
    /\ Emit(6, CubicTo(values[1], values[2], values[3], values[4],
                       values[5], values[6]),
            values[5], values[6])

\* smooth_rel with the control point taken from the cursor after its update.
smooth_rel_late_control ==
    /\ At("s")
    /\ Emit(4, QuadTo(last_x + values[3] + values[1],
                      last_y + values[4] + values[2],
                      last_x + values[3], last_y + values[4]),
            last_x + values[3], last_y + values[4])

smooth_rel ==
    /\ At("s")
    /\ Emit(4, QuadTo(last_x + values[1], last_y + values[2],
                      last_x + values[3], last_y + values[4]),
            last_x + values[3], last_y + values[4])

smooth_abs ==
    /\ At("S")
    /\ Emit(4, QuadTo(values[1], values[2], values[3], values[4]),
            values[3], values[4])

Matched ==
    {"m", "M", "l", "L", "v", "V", "h", "H", "c", "C", "s", "S"}

\* other_command with the cursor sent back to (0,0).
other_command_home ==
    /\ pc = "interp" /\ idx <= Len(elements)
    /\ elements[idx].command \notin {"m", "M", "l", "L", "v", "V", "h", "H",
                                      "c", "C", "s", "S"}
    /\ idx' = idx + 1
    /\ last_x' = 0 /\ last_y' = 0
    /\ UNCHANGED <<pc, tokens, pos, elements, path>>
    /\ args_unchanged

\* _ => {}
other_command ==
    /\ pc = "interp" /\ idx <= Len(elements)
    /\ elements[idx].command \notin Matched
    /\ idx' = idx + 1
    /\ UNCHANGED <<pc, tokens, pos, elements, path, last_x, last_y>>
    /\ args_unchanged

\* path.finish()
Finish ==
    /\ pc = "interp" /\ idx > Len(elements)
    /\ pc' = "done"
    /\ UNCHANGED <<tokens, pos, elements, idx, path, last_x, last_y>>
    /\ args_unchanged

BuildCircle ==
    /\ pc = "start" /\ fn = "build_circle"
    /\ path' = build_circle(radius, cx, cy)
    /\ pc' = "done"
    /\ UNCHANGED <<tokens, pos, elements, idx, last_x, last_y>>
    /\ args_unchanged

Next ==
    \/ Tokenize \/ GroupClose \/ GroupCommand \/ GroupEnd
    \/ move_rel \/ move_abs \/ line_rel \/ line_abs
    \/ vertical_rel \/ vertical_abs \/ horizontal_rel \/ horizontal_abs
    \/ cubic_rel \/ cubic_abs \/ smooth_rel \/ smooth_abs
    \/ other_command \/ Finish
    \/ BuildCircle

Spec == Init /\ [][Next]_vars

---------------------------------------------------------------------------
(* A caller that makes several calls, one after the other, as main does.   *)
(* Each call has its own locals: a new call finds in them whatever the     *)
(* last one left, and sees only what the function itself initialises.      *)

CallInputs ==
    {w \o <<"Z">> : w \in Words} \cup {W_m, Ex_square, Ex_rel_closed}

CallRadii == {1}

Outcome ==
    [result |-> pc, path |-> IF pc = "done" THEN path ELSE <<>>]

InitCalls ==
    /\ \/ /\ fn = "create_path_from_string"
          /\ svg_raw_path \in CallInputs
          /\ radius = 0 /\ cx = 0 /\ cy = 0
       \/ /\ fn = "build_circle"
          /\ svg_raw_path = <<>>
          /\ radius \in CallRadii /\ cx = 0 /\ cy = 0
    /\ pc = "start"
    /\ tokens = <<>> /\ pos = 1
    /\ elements = <<>> /\ idx = 1
    /\ path = <<>>
    /\ last_x = 0 /\ last_y = 0
    /\ calls = <<>>

\* The call has ended (a caught panic or a returned path); the next starts.
CallAgain ==
    /\ pc \in {"done", "panic"}
    /\ Len(calls) < MaxCalls
    /\ calls' = Append(calls,
          [fn |-> fn, svg_raw_path |-> svg_raw_path, radius |-> radius,
           outcome |-> Outcome])
    /\ \/ /\ fn' = "create_path_from_string"
          /\ svg_raw_path' \in CallInputs
          /\ radius' = 0
       \/ /\ fn' = "build_circle"
          /\ svg_raw_path' = <<>>
          /\ radius' \in CallRadii
    /\ pc' = "start"
    /\ UNCHANGED <<cx, cy, tokens, pos, elements, idx, path, last_x, last_y>>

NextCalls == Next \/ CallAgain

SpecCalls == InitCalls /\ [][NextCalls]_vars

---------------------------------------------------------------------------
(* Vocabulary of the claims *)

Parsing == fn = "create_path_from_string"

Circling == fn = "build_circle"

Returned == pc = "done"

Failed == pc = "panic"

Count(seq, P(_)) == Cardinality({i \in 1..Len(seq) : P(seq[i])})

CloseChars == {"Z", "z"}

\* The letters the claims call supported.
Supported == Matched \cup CloseChars

Arity(c) ==
    CASE c \in {"m", "M", "l", "L"} -> 2
      [] c \in {"v", "V", "h", "H"} -> 1
      [] c \in {"c", "C"} -> 6
      [] c \in {"s", "S"} -> 4

\* The last two arguments of an operation: the point it ends at.
EndPoint(o) == <<o.args[Len(o.args) - 1], o.args[Len(o.args)]>>

---------------------------------------------------------------------------
(* C1: every Z or z command of the input causes exactly one close() on    *)
(* the builder, and "M0 0L10 0L10 10L0 10Z" emits moveTo(0,0),             *)
(* lineTo(10,0), lineTo(10,10), lineTo(0,10), close().                     *)
C1_EveryZCloses ==
    (Parsing /\ Returned) =>
        /\ Count(path, LAMBDA o : o = Close)
             = Count(svg_raw_path, LAMBDA ch : ch \in CloseChars)
        /\ svg_raw_path = Ex_square =>
             path = <<MoveTo(0, 0), LineTo(10, 0), LineTo(10, 10),
                      LineTo(0, 10), Close>>

(* C2: an input that holds a command letter outside the supported set      *)
(* fails: no path is returned.                                             *)
C2_UnsupportedFails ==
    (Parsing /\ \E i \in 1..Len(svg_raw_path) :
                   svg_raw_path[i] \in Letters \ Supported)
        => ~Returned

(* C3: a grouped command whose number of arguments differs from the arity  *)
(* of its letter, too few or too many, makes the call fail.                *)
C3_ArityMismatchFails ==
    (Parsing /\ \E i \in 1..Len(elements) :
                   /\ elements[i].command \in Matched
                   /\ Len(elements[i].values) # Arity(elements[i].command))
        => ~Returned

(* C4: "M10 10l5 5" and "M10 10L15 15" both return a path and both emit    *)
(* moveTo(10,10), lineTo(15,15).                                           *)
C4_RelativeEqualsAbsolute ==
    (Parsing /\ svg_raw_path \in {Ex_rel, Ex_abs}) =>
        /\ ~Failed
        /\ Returned => path = <<MoveTo(10, 10), LineTo(15, 15)>>

(* C5: "M 0 0 L 10 10" and "M0 0L10 10" both return a path, emit the same  *)
(* operations, and leave the cursor at the endpoint of the last command.   *)
C5_SeparatorsIrrelevant ==
    (Parsing /\ svg_raw_path \in {Ex_spaced, Ex_tight}) =>
        /\ ~Failed
        /\ Returned =>
             /\ path = <<MoveTo(0, 0), LineTo(10, 10)>>
             /\ <<last_x, last_y>> = <<10, 10>>

---------------------------------------------------------------------------
(* build_circle *)

(* C6, as claimed: build_circle starts with moveTo(cx + radius, cy), the   *)
(* rightmost point of the circle.                                          *)
C6_StartsAtRightmost ==
    (Circling /\ Returned) => path[1] = MoveTo(S(cx + radius), S(cy))

(* C6, as amended: build_circle starts with moveTo(cx, cy + radius), the   *)
(* point below the centre on a y-down raster; build_circle(100, 256, 256)  *)
(* starts with moveTo(256, 356).                                           *)
C6_StartsBelowCentre ==
    (Circling /\ Returned) =>
        /\ path[1] = MoveTo(S(cx), S(cy + radius))
        /\ (radius = 100 /\ cx = 256 /\ cy = 256) =>
             path[1] = MoveTo(S(256), S(356))

C6_Witness ==
    Circling /\ Returned /\ radius = 100 /\ cx = 256 /\ cy = 256

(* C7: build_circle emits one moveTo, then four cubicTo and no close();    *)
(* the fourth cubic ends at the moveTo point.                              *)
C7_FourArcsClosed ==
    (Circling /\ Returned) =>
        /\ Len(path) = 5
        /\ path[1].op = "moveTo"
        /\ \A i \in 2..5 : path[i].op = "cubicTo"
        /\ \A i \in 1..Len(path) : path[i] # Close
        /\ EndPoint(path[5]) = path[1].args

C7_Witness ==
    /\ Circling /\ Returned /\ radius > 0
    /\ Len(path) = 5 /\ EndPoint(path[2]) # EndPoint(path[5])

\* Twice the signed area of the polygon p, q, u, w (the shoelace sum).
Cross(p, q) == p[1] * q[2] - q[1] * p[2]

Shoelace(p, q, u, w) == Cross(p, q) + Cross(q, u) + Cross(u, w) + Cross(w, p)

\* A point of the path in whole units, relative to the centre.
FromCentre(p) == <<(p[1] - S(cx)) \div KDen, (p[2] - S(cy)) \div KDen>>

ArcEnd(i) == EndPoint(path[i + 1])

EndsArea ==
    Shoelace(FromCentre(ArcEnd(1)), FromCentre(ArcEnd(2)),
             FromCentre(ArcEnd(3)), FromCentre(ArcEnd(4)))

(* C10, as claimed: for radius > 0 the four cubics end, in order, at the   *)
(* top (cx, cy - radius), the left (cx - radius, cy), the bottom           *)
(* (cx, cy + radius) and the start point, and the signed area of that      *)
(* polygon has the sign of a clockwise traversal on a y-down raster        *)
(* (a positive shoelace sum).                                              *)
C10_ClockwiseTopLeftBottom ==
    (Circling /\ Returned /\ radius > 0) =>
        /\ ArcEnd(1) = <<S(cx), S(cy - radius)>>
        /\ ArcEnd(2) = <<S(cx - radius), S(cy)>>
        /\ ArcEnd(3) = <<S(cx), S(cy + radius)>>
        /\ ArcEnd(4) = path[1].args
        /\ EndsArea > 0

(* C10, as amended: for radius > 0 the four cubics end, in order, at the   *)
(* right (cx + radius, cy), the top (cx, cy - radius), the left            *)
(* (cx - radius, cy) and the start point (cx, cy + radius), the bottom;    *)
(* the shoelace sum of that polygon is -4 * radius^2, negative: the        *)
(* traversal is counterclockwise as seen on a y-down raster.               *)
C10_RightTopLeftBottom ==
    (Circling /\ Returned /\ radius > 0) =>
        /\ ArcEnd(1) = <<S(cx + radius), S(cy)>>
        /\ ArcEnd(2) = <<S(cx), S(cy - radius)>>
        /\ ArcEnd(3) = <<S(cx - radius), S(cy)>>
        /\ ArcEnd(4) = <<S(cx), S(cy + radius)>>
        /\ ArcEnd(4) = path[1].args
        /\ EndsArea = 0 - 4 * radius * radius
        /\ EndsArea < 0

C10_Witness ==
    /\ Circling /\ Returned /\ radius > 0 /\ cx # cy
    /\ ArcEnd(2)[2] < ArcEnd(1)[2] /\ ArcEnd(1)[2] < ArcEnd(4)[2]

---------------------------------------------------------------------------
(* create_path_from_string: s, S and the empty input *)

(* C8: s and S each emit exactly one quadTo(cx, cy, x, y): for s the       *)
(* control point and the endpoint are the four arguments added to the      *)
(* cursor held before the command, for S they are the arguments            *)
(* themselves; the cursor becomes the endpoint.                            *)
C8_SmoothIsQuad ==
    [][ (/\ pc = "interp" /\ idx <= Len(elements)
         /\ elements[idx].command \in {"s", "S"}
         /\ Len(values) = 4)
        => LET bx == IF elements[idx].command = "s" THEN last_x ELSE 0
               by == IF elements[idx].command = "s" THEN last_y ELSE 0
           IN  /\ path' = Append(path,
                     QuadTo(bx + values[1], by + values[2],
                            bx + values[3], by + values[4]))
               /\ last_x' = bx + values[3]
               /\ last_y' = by + values[4]
               /\ pc' = "interp" ]_vars

\* A path was returned for an S followed by an s: the S moved the cursor
\* off (0,0), the s was resolved against it, and both drew a quadTo.
C8_Witness ==
    /\ Parsing /\ Returned
    /\ Len(elements) >= 2
    /\ elements[1].command = "S" /\ Len(elements[1].values) = 4
    /\ elements[2].command = "s" /\ Len(elements[2].values) = 4
    /\ Count(path, LAMBDA o : o.op = "quadTo") = 2
    /\ Count(path, LAMBDA o : o.op = "cubicTo") = 0
    /\ path[2].args # elements[2].values

OnlySeparators(str) == \A i \in 1..Len(str) : str[i] \in split_chars

(* C9: for an input that is empty or holds only spaces and commas the      *)
(* call does not fail: there are no tokens, no operation is issued, and    *)
(* finish() returns an empty path.                                         *)
C9_EmptyInputEmptyPath ==
    (Parsing /\ OnlySeparators(svg_raw_path)) =>
        /\ ~Failed
        /\ tokens = <<>> /\ elements = <<>> /\ path = <<>>
        /\ ~Returned => ENABLED Next
        /\ Returned => ~ENABLED Finish

C9_Witness ==
    /\ Parsing /\ Returned
    /\ OnlySeparators(svg_raw_path)
    /\ \E i, j \in 1..Len(svg_raw_path) :
          svg_raw_path[i] = " " /\ svg_raw_path[j] = ","
    /\ path = <<>>

---------------------------------------------------------------------------
(* Several calls *)

(* C11: create_path_from_string keeps no state across calls: a call with   *)
(* the same input string as an earlier call has the same outcome (both     *)
(* fail, or both return the same operations), whatever calls came between, *)
(* and every call starts its interpretation with the cursor at (0,0).      *)
C11_SameInputSameOutcome ==
    /\ (Parsing /\ pc \in {"done", "panic"}) =>
          \A i \in 1..Len(calls) :
             (calls[i].fn = fn /\ calls[i].svg_raw_path = svg_raw_path)
                => calls[i].outcome = Outcome
    /\ (Parsing /\ pc = "interp" /\ idx = 1) => (last_x = 0 /\ last_y = 0)

\* A third call with the input of the first has returned, after a call
\* with another input that left its cursor off (0,0).
C11_Witness ==
    /\ Parsing /\ Returned
    /\ Len(calls) = 2
    /\ calls[1].fn = fn /\ calls[1].svg_raw_path = svg_raw_path
    /\ calls[2].svg_raw_path # svg_raw_path
    /\ calls[2].outcome.result = "done" /\ calls[2].outcome.path # <<>>
    /\ path # <<>> /\ <<last_x, last_y>> # <<0, 0>>
    /\ svg_raw_path[1] = "m"

---------------------------------------------------------------------------
(* The interpretation pass against the table of commands *)

TableLetters == {"m", "M", "l", "L", "v", "V", "h", "H", "c", "C"}

\* The operation the table gives command c with arguments v at cursor (x, y).
TableOp(c, v, x, y) ==
    CASE c = "m" -> MoveTo(x + v[1], y + v[2])
      [] c = "M" -> MoveTo(v[1], v[2])
      [] c = "l" -> LineTo(x + v[1], y + v[2])
      [] c = "L" -> LineTo(v[1], v[2])
      [] c = "v" -> LineTo(x, y + v[1])
      [] c = "V" -> LineTo(x, v[1])
      [] c = "h" -> LineTo(x + v[1], y)
      [] c = "H" -> LineTo(v[1], y)
      [] c = "c" -> CubicTo(x + v[1], y + v[2], x + v[3], y + v[4],
                            x + v[5], y + v[6])
      [] c = "C" -> CubicTo(v[1], v[2], v[3], v[4], v[5], v[6])

\* The operations of the first n commands of els, from the cursor (0,0);
\* the cursor after each command is the endpoint of its operation.
RECURSIVE TableRun(_, _)
TableRun(els, n) ==
    IF n = 0 THEN [path |-> <<>>, x |-> 0, y |-> 0]
    ELSE LET before == TableRun(els, n - 1)
             o == TableOp(els[n].command, els[n].values, before.x, before.y)
         IN  [path |-> Append(before.path, o),
              x |-> EndPoint(o)[1], y |-> EndPoint(o)[2]]

WellFormed(e) ==
    e.command \in TableLetters /\ Len(e.values) = Arity(e.command)

Interpreting == Parsing /\ pos > Len(tokens) /\ pc \in {"interp", "done", "panic"}

(* C12: for grouped commands over m, M, l, L, v, V, h, H, c, C with        *)
(* correct arity the interpreter emits one operation per command, in       *)
(* order, the one the table gives for the cursor held before the command,  *)
(* and the cursor after each command is the endpoint of its operation; no  *)
(* such command makes the call fail.                                       *)
C12_OneTableOpPerCommand ==
    (Interpreting /\ \A i \in 1..(idx - 1) : WellFormed(elements[i])) =>
        /\ Len(path) = idx - 1
        /\ path = TableRun(elements, idx - 1).path
        /\ last_x = TableRun(elements, idx - 1).x
        /\ last_y = TableRun(elements, idx - 1).y
        /\ idx > 1 => <<last_x, last_y>> = EndPoint(path[idx - 1])
        /\ Failed => ~WellFormed(elements[idx])

\* An M and then a c have been interpreted: the c was resolved against the
\* cursor the M had left.
C12_Witness ==
    /\ Parsing /\ pc = "interp" /\ idx = 3
    /\ Len(elements) = 3 /\ Len(path) = 2
    /\ elements[1].command = "M" /\ WellFormed(elements[1])
    /\ elements[2].command = "c" /\ WellFormed(elements[2])
    /\ path[2].op = "cubicTo" /\ path[2].args # elements[2].values

---------------------------------------------------------------------------
(* The cursor *)

\* The interpretation loop takes the step of the command at idx.
Interprets(c) ==
    /\ pc = "interp" /\ idx <= Len(elements) /\ elements[idx].command \in c
    /\ pc' = "interp" /\ idx' = idx + 1

(* C13: the cursor starts at (0,0) and is never reset: v/V leave its x     *)
(* unchanged, h/H its y, a Z or z both, so a relative command after a Z    *)
(* is resolved against the endpoint of the last operation; a leading       *)
(* m dx dy emits moveTo(dx, dy).                                           *)
C13_CursorNeverReset ==
    /\ []((Parsing /\ pc = "interp" /\ idx = 1)
            => (last_x = 0 /\ last_y = 0))
    /\ [][ /\ Interprets({"v", "V"}) => last_x' = last_x
           /\ Interprets({"h", "H"}) => last_y' = last_y
           /\ Interprets(CloseChars) =>
                (last_x' = last_x /\ last_y' = last_y /\ path' = path)
           /\ (Interprets({"m", "l"}) /\ idx > 1 /\ path # <<>>
                 /\ elements[idx - 1].command \in CloseChars) =>
                EndPoint(path'[Len(path')])
                  = << EndPoint(path[Len(path)])[1] + values[1],
                       EndPoint(path[Len(path)])[2] + values[2] >>
           /\ (Interprets({"m"}) /\ idx = 1) =>
                path' = <<MoveTo(values[1], values[2])>> ]_vars

\* "M1 2L4 5Zl2 3Z" has returned: the l after the Z went to (4+2, 5+3).
C13_Witness ==
    /\ Parsing /\ Returned /\ svg_raw_path = Ex_after_close
    /\ path = <<MoveTo(1, 2), LineTo(4, 5), LineTo(6, 8)>>
    /\ <<last_x, last_y>> = <<6, 8>>

---------------------------------------------------------------------------
(* The control points of build_circle *)

Abs(v) == IF v < 0 THEN 0 - v ELSE v

\* The distance of two points that share a coordinate.
Dist(p, q) == Abs(p[1] - q[1]) + Abs(p[2] - q[2])

\* u is p displaced along the tangent of the circle at p: it has moved in
\* no coordinate in which p lies off the centre.
AlongTangent(u, p) ==
    /\ p[1] # S(cx) => u[1] = p[1]
    /\ p[2] # S(cy) => u[2] = p[2]

\* The cubic i runs from ArcStart(i) to ArcEnd(i).
ArcStart(i) == EndPoint(path[i])

Control1(i) == <<path[i + 1].args[1], path[i + 1].args[2]>>

Control2(i) == <<path[i + 1].args[3], path[i + 1].args[4]>>

(* C14: for each of the four cubics from P to Q the first control point    *)
(* is P displaced by exactly offset along the tangent at P and the second  *)
(* is Q displaced by exactly offset along the tangent at Q.                *)
C14_ControlPointsSymmetric ==
    (Circling /\ Returned /\ radius > 0) =>
        \A i \in 1..4 :
            /\ AlongTangent(Control1(i), ArcStart(i))
            /\ Dist(Control1(i), ArcStart(i)) = circle_offset(radius)
            /\ AlongTangent(Control2(i), ArcEnd(i))
            /\ Dist(Control2(i), ArcEnd(i)) = circle_offset(radius)

---------------------------------------------------------------------------
(* Repeated coordinate sets *)

\* The number of complete coordinate sets in the first n groups of els.
RECURSIVE CoordinateSets(_, _)
CoordinateSets(els, n) ==
    IF n = 0 THEN 0
    ELSE CoordinateSets(els, n - 1)
           + (IF els[n].command \in Matched
              THEN Len(els[n].values) \div Arity(els[n].command)
              ELSE 0)

(* C15: a command letter followed by n >= 2 complete coordinate sets is    *)
(* applied once per set: n operations are emitted and the cursor ends at   *)
(* the endpoint of the last set; "L10 0 10 10 0 10Z" emits lineTo(10,0),   *)
(* lineTo(10,10), lineTo(0,10).                                            *)
C15_ImplicitRepetition ==
    (/\ Parsing /\ Returned
     /\ \A i \in 1..Len(elements) :
           elements[i].command \in Matched =>
              /\ Len(elements[i].values) > 0
              /\ Len(elements[i].values) % Arity(elements[i].command) = 0)
    => /\ Len(path) = CoordinateSets(elements, Len(elements))
       /\ svg_raw_path = Ex_repeat =>
            /\ path = <<LineTo(10, 0), LineTo(10, 10), LineTo(0, 10)>>
            /\ <<last_x, last_y>> = <<0, 10>>

---------------------------------------------------------------------------
(* The grouping pass *)

Grouped == Parsing /\ pc = "interp" /\ idx = 1

\* The grouping loop takes a token that is not a Z for a command and goes on.
GroupsCommand ==
    /\ pc = "group" /\ pos <= Len(tokens) /\ tokens[pos][1] # "Z"
    /\ pc' = "group" /\ pos' > pos

(* C16: a token that follows a command is taken as a further argument of   *)
(* it if and only if its first character is a digit: in "M10 -5Z" the -5   *)
(* is not an argument of M and becomes a group of its own with no command  *)
(* letter, while in "M-5 10Z" the -5 is the first argument of M.           *)
C16_DigitContinuation ==
    /\ []((Grouped /\ svg_raw_path = Ex_neg_cont) =>
            elements = << [command |-> "M", values |-> <<10>>],
                          [command |-> "-", values |-> <<5>>],
                          [command |-> "Z", values |-> <<>>] >>)
    /\ []((Grouped /\ svg_raw_path = Ex_neg_first) =>
            elements = << [command |-> "M", values |-> <<0 - 5, 10>>],
                          [command |-> "Z", values |-> <<>>] >>)
    /\ [][ GroupsCommand =>
             /\ \A j \in (pos + 1)..(pos' - 1) : is_digit(tokens[j][1])
             /\ pos' <= Len(tokens) /\ ~is_digit(tokens[pos'][1])
             /\ elements' = Append(elements, elements'[Len(elements')])
             /\ elements'[Len(elements')].command = tokens[pos][1]
             /\ Len(elements'[Len(elements')].values)
                  = (pos' - pos - 1)
                      + (IF Len(tokens[pos]) > 1 THEN 1 ELSE 0) ]_vars

\* "M10 -5Z" has been grouped: the -5 is a group whose command is '-'.
C16_Witness ==
    /\ Grouped /\ svg_raw_path = Ex_neg_cont
    /\ Len(elements) = 3
    /\ elements[1].values = <<10>>
    /\ elements[2].command = "-"


\* The token at pos is the last command of the input: a supported letter
\* other than Z, followed to the end of the tokens by numbers only, as many
\* arguments in all as its arity asks for.
LastCommandWellFormed ==
    LET c == tokens[pos][1]
        first_arg == Tail(tokens[pos])
        given == (Len(tokens) - pos) + (IF first_arg # <<>> THEN 1 ELSE 0)
    IN  /\ c \in Matched \cup {"z"}
        /\ first_arg # <<>> => parse_f32(first_arg).ok
        /\ \A j \in (pos + 1)..Len(tokens) : all_digits(tokens[j])
        /\ given = (IF c = "z" THEN 0 ELSE Arity(c))

(* C17: the grouping pass never reads past the end of the tokens: when     *)
(* the last command of the input is a supported command other than Z with  *)
(* correct arity, the lookahead stops normally at the end of the tokens    *)
(* and the call does not fail there.                                       *)
C17_LookaheadStopsAtEnd ==
    [][ (/\ Parsing /\ pc = "group" /\ pos <= Len(tokens)
         /\ LastCommandWellFormed)
        => pc' # "panic" ]_vars

---------------------------------------------------------------------------
(* The tokens of split_path *)

RECURSIVE Flatten(_)
Flatten(seqs) ==
    IF seqs = <<>> THEN <<>> ELSE Head(seqs) \o Flatten(Tail(seqs))

Tokenized == Parsing /\ pc # "start"

(* C18: no token of split_path is empty, none holds a space or a comma, a  *)
(* letter occurs only as the first character of a token, and the tokens    *)
(* put together in order are the input without its spaces and commas.      *)
C18_TokensPartitionInput ==
    Tokenized =>
        /\ \A i \in 1..Len(tokens) :
              /\ tokens[i] # <<>>
              /\ \A k \in 1..Len(tokens[i]) :
                    /\ tokens[i][k] \notin split_chars
                    /\ k > 1 => ~is_alphabetic(tokens[i][k])
        /\ Flatten(tokens)
             = SelectSeq(svg_raw_path, LAMBDA ch : ch \notin split_chars)

\* The tokens hold a letter with its first argument, a bare letter and a
\* bare number, and the input held separators and two letters in a row.
C18_Witness ==
    /\ Tokenized
    /\ \E i, j, k \in 1..Len(tokens) :
          /\ Len(tokens[i]) > 1 /\ is_alphabetic(tokens[i][1])
          /\ Len(tokens[j]) = 1 /\ is_alphabetic(tokens[j][1])
          /\ ~is_alphabetic(tokens[k][1])
    /\ \E n \in 1..Len(svg_raw_path) : svg_raw_path[n] \in split_chars
    /\ \E n \in 2..Len(svg_raw_path) :
          is_alphabetic(svg_raw_path[n - 1]) /\ is_alphabetic(svg_raw_path[n])

---------------------------------------------------------------------------
(* build_circle with a radius that is not positive *)

(* C19: build_circle with radius <= 0 fails or returns a degenerate path:  *)
(* never an outline that encloses a non-zero area.                         *)
C19_NonPositiveRadiusDegenerate ==
    (Circling /\ pc \in {"done", "panic"} /\ radius <= 0) =>
        \/ Failed
        \/ path = <<>>
        \/ EndsArea = 0

=============================================================================
